---- MODULE Spec2Model ----
(***************************************************************************)
(* Bike-rental registry (src/app.ts, class App).                           *)
(*                                                                         *)
(* User, Bike and Rent values are JavaScript objects: the collections hold *)
(* references, and a Rent keeps references to the Bike and the User it was *)
(* built from.  The model therefore keeps a heap per class (userObjs,      *)
(* bikeObjs: sequences indexed by object reference) and stores references  *)
(* in users, bikes and rents.  A caller may pass an object it passed       *)
(* before, so the same reference can be registered again.                  *)
(***************************************************************************)
EXTENDS Integers, Sequences, FiniteSets

\* users, bikes : App.users, App.bikes, sequences of object references
\* rents        : App.rents, records [bike, user, start, end] (end NoEnd: open)
\* userObjs     : the User objects, records [id, email, password]
\* bikeObjs     : the Bike objects, records [id, rate, available, location]
\* repoRents    : the rents the RentRepo collaborator holds, [email, end]
\* pending      : the registerUser calls suspended at their await
\* nextId       : the next identifier crypto.randomUUID() returns
\* last         : the last call and its result
VARIABLES users, bikes, rents, userObjs, bikeObjs, repoRents, pending, nextId, last

vars == <<users, bikes, rents, userObjs, bikeObjs, repoRents, pending, nextId, last>>

(* ------------------------------ bounds -------------------------------- *)
\* The identifiers crypto.randomUUID() hands out are 1..MaxIds, in order, so at
\* most MaxIds registrations (of users and of bikes together) succeed.
MaxIds == 3
\* The rent collection holds at most MaxRents rents.
MaxRents == 2
\* new Date() answers a time in 0..MaxTime.
MaxTime == 0

(* ------------------------------ inputs -------------------------------- *)
Emails == {"a@x", "b@x"}
Plaintexts == {"pw"}
Rates == {10}
Locations == {[latitude |-> 0, longitude |-> 0], [latitude |-> 1, longitude |-> 2]}
Times == 0..MaxTime
Ids == 1..MaxIds

\* A rent whose end timestamp is unset (rent.end is undefined, so !rent.end).
NoEnd == -1
\* The id of an object that was never registered (id is undefined).
NoId == 0
\* Array.prototype.findIndex / find with no match.
NotFound == 0

(* --------------------------- error kinds ------------------------------ *)
UserNotFound == "User not found."
DuplicateUser == "Duplicate user."
UserHasOpenRents == "User has open rents, cannot be removed."
UserDoesNotExist == "User does not exist."
BikeNotFound == "Bike not found."
UnavailableBike == "Unavailable bike."
RentNotFound == "Rent not found."
Ok == "ok"
Suspended == "suspended"

(* ----------------------- collaborators -------------------------------- *)
\* Crypt.encrypt: a one-way transform; a password is [depth, plain], the
\* plaintext hashed depth times (depth 0 is the plaintext itself).
encrypt(password) == [depth |-> password.depth + 1, plain |-> password.plain]

\* Crypt.compare(password, encrypted): whether encrypted is the hash of
\* password.
compare(password, encrypted) == encrypted = encrypt(password)

\* The contents a RentRepo implementation may hold when the App is built:
\* FakeRentRepo starts (and stays) empty; another implementation of the
\* interface may report rents of its own store.
RepoContents ==
    {<<>>, <<[email |-> "a@x", end |-> NoEnd], [email |-> "b@x", end |-> 0]>>}

\* FakeRentRepo.findOpenRentsFor: the repo's own rents, filtered.
findOpenRentsFor(userEmail) ==
    SelectSeq(repoRents, LAMBDA rent : rent.email = userEmail /\ rent.end = NoEnd)

(* --------------------------- lookups ---------------------------------- *)
\* this.users.findIndex(user => user.email === email), 1-based; NotFound if none.
findUserIndex(email) ==
    IF \E i \in 1..Len(users) : userObjs[users[i]].email = email
    THEN CHOOSE i \in 1..Len(users) :
            /\ userObjs[users[i]].email = email
            /\ \A j \in 1..(i - 1) : userObjs[users[j]].email # email
    ELSE NotFound

\* findUser: this.users.find(user => user.email === email). The reference of
\* the user; NotFound where findUser throws 'User not found.'.
findUser(email) ==
    IF findUserIndex(email) = NotFound THEN NotFound ELSE users[findUserIndex(email)]

\* Mutant: the last match is returned.
getUserByEmail_LastMatch(email) ==
    IF \E i \in 1..Len(users) : userObjs[users[i]].email = email
    THEN users[CHOOSE i \in 1..Len(users) :
            /\ userObjs[users[i]].email = email
            /\ \A j \in (i + 1)..Len(users) : userObjs[users[j]].email # email]
    ELSE NotFound

\* getUserByEmail: this.users.find(user => user.email === email), returned as
\* it is. The reference of the user; NotFound for undefined (nothing is
\* thrown).
getUserByEmail(email) ==
    IF \E i \in 1..Len(users) : userObjs[users[i]].email = email
    THEN users[CHOOSE i \in 1..Len(users) :
            /\ userObjs[users[i]].email = email
            /\ \A j \in 1..(i - 1) : userObjs[users[j]].email # email]
    ELSE NotFound

\* findBike: this.bikes.find(bike => bike.id === bikeId). The reference of the
\* bike; NotFound where findBike throws BikeNotFoundError.
findBike(bikeId) ==
    IF \E i \in 1..Len(bikes) : bikeObjs[bikes[i]].id = bikeId
    THEN bikes[CHOOSE i \in 1..Len(bikes) :
            /\ bikeObjs[bikes[i]].id = bikeId
            /\ \A j \in 1..(i - 1) : bikeObjs[bikes[j]].id # bikeId]
    ELSE NotFound

\* getBikeById: const bike = this.findBike(bikeId); return bike. The reference
\* of the bike; NotFound where findBike throws BikeNotFoundError.
getBikeById(bikeId) == findBike(bikeId)

\* The duplicate check of registerUser (the for loop over this.users).
isDuplicate(email) ==
    \E i \in 1..Len(users) : userObjs[users[i]].email = email

\* Mutant: the availability check is missing.
isUnavailable_Never(bike) == FALSE

\* The availability check of rentBike: !bike.available.
isUnavailable(bike) == ~bikeObjs[bike].available

\* Mutant: the predicate does not test !rent.end.
rentMatches_IgnoresEnd(rent, bikeId, userEmail) ==
    /\ bikeObjs[rent.bike].id = bikeId
    /\ userObjs[rent.user].email = userEmail

\* Mutant: the predicate does not test rent.bike.id.
rentMatches_IgnoresBike(rent, bikeId, userEmail) ==
    /\ userObjs[rent.user].email = userEmail
    /\ rent.end = NoEnd

\* The predicate of rents.find in returnBike.
rentMatches(rent, bikeId, userEmail) ==
    /\ bikeObjs[rent.bike].id = bikeId
    /\ userObjs[rent.user].email = userEmail
    /\ rent.end = NoEnd

\* this.rents.find(...) in returnBike: the index of the first match.
findRentIndex(bikeId, userEmail) ==
    IF \E k \in 1..Len(rents) : rentMatches(rents[k], bikeId, userEmail)
    THEN CHOOSE k \in 1..Len(rents) :
            /\ rentMatches(rents[k], bikeId, userEmail)
            /\ \A j \in 1..(k - 1) : ~rentMatches(rents[j], bikeId, userEmail)
    ELSE NotFound

\* this.users.splice(userIndex, 1)
splice(seq, index) ==
    SubSeq(seq, 1, index - 1) \o SubSeq(seq, index + 1, Len(seq))

(* ---------------------------- the fee --------------------------------- *)
\* JavaScript numbers are modelled as exact fractions [num, den] in lowest
\* terms with den > 0; the rounding of doubles is not modelled.
RECURSIVE GCD(_, _)
GCD(a, b) == IF b = 0 THEN a ELSE GCD(b, a % b)

Abs(n) == IF n < 0 THEN -n ELSE n

Fraction(n, d) ==
    LET g == GCD(Abs(n), Abs(d))
        sign == IF d < 0 THEN -1 ELSE 1
    IN [num |-> sign * (n \div g), den |-> sign * (d \div g)]

\* Mutant: the hours are floored.
diffHours_Floored(dt2, dt1) ==
    Fraction(Abs(dt2 - dt1) \div (1000 * (60 * 60)), 1)

\* diffHours(dt2, dt1), the arguments being getTime() milliseconds:
\* diff = (dt2 - dt1) / 1000; diff /= (60 * 60); Math.abs(diff).
diffHours(dt2, dt1) ==
    LET diff == Fraction(dt2 - dt1, 1000)
        hours == Fraction(diff.num, diff.den * (60 * 60))
    IN Fraction(Abs(hours.num), hours.den)

\* hours * rent.bike.rate
times(hours, rate) == Fraction(hours.num * rate, hours.den)

(* ------------------------- the last call ------------------------------ *)
NoPassword == [depth |-> 0, plain |-> ""]
NoFee == [num |-> 0, den |-> 0]

\* What the last call did: the method, its bikeId, email and password
\* arguments (bikeId is the identifier returned, for a registration), its
\* result (Ok, Suspended at the await, "true" or "false" for authenticate, or
\* the message of the error thrown), the object reference it returned and
\* the fee it returned.
Answered(op, bikeId, email, password, res, ref, fee) ==
    [op |-> op, bikeId |-> bikeId, email |-> email, password |-> password,
     res |-> res, ref |-> ref, fee |-> fee]

\* A call that takes no password and returns no object and no fee.
Called(op, bikeId, email, res) ==
    Answered(op, bikeId, email, NoPassword, res, NotFound, NoFee)

(* ------------------------------ Init ---------------------------------- *)
Init ==
    /\ users = <<>>
    /\ bikes = <<>>
    /\ rents = <<>>
    /\ userObjs = <<>>
    /\ bikeObjs = <<>>
    /\ repoRents \in RepoContents
    /\ pending = {}
    /\ nextId = 1
    /\ last = Called("new", NoId, "", Ok)

(* ---------------------------- operations ------------------------------ *)
\* Mutant: user.id is assigned before the duplicate check.
registerUserCall_IdBeforeCheck(objs, user) ==
    /\ nextId <= MaxIds
    /\ nextId' = nextId + 1
    /\ IF isDuplicate(objs[user].email)
       THEN /\ userObjs' = IF user <= Len(userObjs)
                            THEN [userObjs EXCEPT ![user].id = nextId]
                            ELSE userObjs
            /\ last' = Called("registerUser", NoId, objs[user].email, DuplicateUser)
            /\ UNCHANGED <<users, bikes, rents, bikeObjs, repoRents, pending>>
       ELSE /\ userObjs' = [objs EXCEPT ![user].id = nextId]
            /\ pending' = pending \cup
                   {[user |-> user, newId |-> nextId,
                     encryptedPassword |-> encrypt(objs[user].password)]}
            /\ last' = Called("registerUser", nextId, objs[user].email, Suspended)
            /\ UNCHANGED <<users, bikes, rents, bikeObjs, repoRents>>

\* registerUser up to its await: the duplicate check, the id assignment and
\* the call of crypt.encrypt with the password read at that moment.
\* objs is the heap including the object passed; user is its reference.
\* A new object whose registration is refused is not kept in the heap: it
\* was not changed, and passing it again is passing a new object.
registerUserCall(objs, user) ==
    IF isDuplicate(objs[user].email)
    THEN /\ last' = Called("registerUser", NoId, objs[user].email, DuplicateUser)
         /\ UNCHANGED <<users, bikes, rents, userObjs, bikeObjs, repoRents, pending, nextId>>
    ELSE /\ nextId <= MaxIds
         /\ userObjs' = [objs EXCEPT ![user].id = nextId]
         /\ nextId' = nextId + 1
         /\ pending' = pending \cup
                {[user |-> user, newId |-> nextId,
                  encryptedPassword |-> encrypt(objs[user].password)]}
         /\ last' = Called("registerUser", nextId, objs[user].email, Suspended)
         /\ UNCHANGED <<users, bikes, rents, bikeObjs, repoRents>>

\* registerUser(user), the caller passing a new User object.
registerUser(email, plain) ==
    registerUserCall(
        Append(userObjs, [id |-> NoId, email |-> email,
                          password |-> [depth |-> 0, plain |-> plain]]),
        Len(userObjs) + 1)

\* registerUser(user), the caller passing an object it passed before.
registerUserAgain(user) ==
    registerUserCall(userObjs, user)

\* registerUser after its await: the hash is stored and the user appended.
\* The call is recorded with the hash it stored and the user it appended.
registerUserResume(call) ==
    /\ userObjs' = [userObjs EXCEPT ![call.user].password = call.encryptedPassword]
    /\ users' = Append(users, call.user)
    /\ pending' = pending \ {call}
    /\ last' = Answered("registerUser.resume", call.newId, userObjs[call.user].email,
                        call.encryptedPassword, Ok, call.user, NoFee)
    /\ UNCHANGED <<bikes, rents, bikeObjs, repoRents, nextId>>

\* authenticate(userEmail, password): findUser, then crypt.compare with the
\* stored password read at the call; the result is "true" or "false".
authenticate(userEmail, password) ==
    LET user == findUser(userEmail) IN
    /\ last' = IF user = NotFound
               THEN Answered("authenticate", NoId, userEmail, password, UserNotFound,
                             NotFound, NoFee)
               ELSE Answered("authenticate", NoId, userEmail, password,
                             IF compare(password, userObjs[user].password)
                             THEN "true" ELSE "false",
                             NotFound, NoFee)
    /\ UNCHANGED <<users, bikes, rents, userObjs, bikeObjs, repoRents, pending, nextId>>

\* Mutant: registerBike makes the bike available.
registerBikeCall_MakesAvailable(objs, bike) ==
    /\ nextId <= MaxIds
    /\ bikeObjs' = [objs EXCEPT ![bike].id = nextId, ![bike].available = TRUE]
    /\ bikes' = Append(bikes, bike)
    /\ nextId' = nextId + 1
    /\ last' = Called("registerBike", nextId, "", Ok)
    /\ UNCHANGED <<users, rents, userObjs, repoRents, pending>>

\* registerBike(bike); objs is the heap including the object passed.
registerBikeCall(objs, bike) ==
    /\ nextId <= MaxIds
    /\ bikeObjs' = [objs EXCEPT ![bike].id = nextId]
    /\ bikes' = Append(bikes, bike)
    /\ nextId' = nextId + 1
    /\ last' = Called("registerBike", nextId, "", Ok)
    /\ UNCHANGED <<users, rents, userObjs, repoRents, pending>>

\* registerBike(bike), the caller passing a new Bike object.
registerBike(rate, available, location) ==
    registerBikeCall(
        Append(bikeObjs, [id |-> NoId, rate |-> rate, available |-> available,
                          location |-> location]),
        Len(bikeObjs) + 1)

\* registerBike(bike), the caller passing an object it passed before.
registerBikeAgain(bike) ==
    registerBikeCall(bikeObjs, bike)

\* Mutant: the test userIndex !== -1 is missing; splice(-1, 1) removes the
\* last element.
removeUser_NoIndexCheck(email) ==
    LET userIndex == findUserIndex(email) IN
    IF Len(findOpenRentsFor(email)) > 0
    THEN /\ last' = Called("removeUser", NoId, email, UserHasOpenRents)
         /\ UNCHANGED <<users, bikes, rents, userObjs, bikeObjs, repoRents, pending, nextId>>
    ELSE /\ users' = IF userIndex = NotFound
                     THEN SubSeq(users, 1, Len(users) - 1)
                     ELSE splice(users, userIndex)
         /\ last' = Called("removeUser", NoId, email, Ok)
         /\ UNCHANGED <<bikes, rents, userObjs, bikeObjs, repoRents, pending, nextId>>

removeUser(email) ==
    LET userIndex == findUserIndex(email) IN
    IF userIndex # NotFound
    THEN IF Len(findOpenRentsFor(email)) > 0
         THEN /\ last' = Called("removeUser", NoId, email, UserHasOpenRents)
              /\ UNCHANGED <<users, bikes, rents, userObjs, bikeObjs, repoRents, pending, nextId>>
         ELSE /\ users' = splice(users, userIndex)
              /\ last' = Called("removeUser", NoId, email, Ok)
              /\ UNCHANGED <<bikes, rents, userObjs, bikeObjs, repoRents, pending, nextId>>
    ELSE /\ last' = Called("removeUser", NoId, email, UserDoesNotExist)
         /\ UNCHANGED <<users, bikes, rents, userObjs, bikeObjs, repoRents, pending, nextId>>

\* Mutant: the user is looked up before the availability check.
rentBike_UserLookupFirst(bikeId, userEmail, now) ==
    LET bike == findBike(bikeId)
        user == findUser(userEmail)
        fail(kind) ==
            /\ last' = Called("rentBike", bikeId, userEmail, kind)
            /\ UNCHANGED <<users, bikes, rents, userObjs, bikeObjs, repoRents, pending, nextId>>
    IN
    IF bike = NotFound THEN fail(BikeNotFound)
    ELSE IF user = NotFound THEN fail(UserNotFound)
    ELSE IF isUnavailable(bike) THEN fail(UnavailableBike)
    ELSE /\ Len(rents) < MaxRents
         /\ bikeObjs' = [bikeObjs EXCEPT ![bike].available = FALSE]
         /\ rents' = Append(rents, [bike |-> bike, user |-> user, start |-> now, end |-> NoEnd])
         /\ last' = Called("rentBike", bikeId, userEmail, Ok)
         /\ UNCHANGED <<users, bikes, userObjs, repoRents, pending, nextId>>

\* Mutant: bike.available is written before the user is looked up.
rentBike_FlagBeforeLookup(bikeId, userEmail, now) ==
    LET bike == findBike(bikeId)
        user == findUser(userEmail)
        fail(kind) ==
            /\ last' = Called("rentBike", bikeId, userEmail, kind)
            /\ UNCHANGED <<users, bikes, rents, userObjs, bikeObjs, repoRents, pending, nextId>>
    IN
    IF bike = NotFound THEN fail(BikeNotFound)
    ELSE IF isUnavailable(bike) THEN fail(UnavailableBike)
    ELSE IF user = NotFound
    THEN /\ bikeObjs' = [bikeObjs EXCEPT ![bike].available = FALSE]
         /\ last' = Called("rentBike", bikeId, userEmail, UserNotFound)
         /\ UNCHANGED <<users, bikes, rents, userObjs, repoRents, pending, nextId>>
    ELSE /\ Len(rents) < MaxRents
         /\ bikeObjs' = [bikeObjs EXCEPT ![bike].available = FALSE]
         /\ rents' = Append(rents, [bike |-> bike, user |-> user, start |-> now, end |-> NoEnd])
         /\ last' = Called("rentBike", bikeId, userEmail, Ok)
         /\ UNCHANGED <<users, bikes, userObjs, repoRents, pending, nextId>>

\* Mutant: a closed rent of the bike and the user is opened again instead of
\* a new rent being appended.
rentBike_ReopensClosedRent(bikeId, userEmail, now) ==
    LET bike == findBike(bikeId)
        user == findUser(userEmail)
        closed == {k \in 1..Len(rents) :
                      rents[k].bike = bike /\ rents[k].user = user /\ rents[k].end # NoEnd}
        fail(kind) ==
            /\ last' = Called("rentBike", bikeId, userEmail, kind)
            /\ UNCHANGED <<users, bikes, rents, userObjs, bikeObjs, repoRents, pending, nextId>>
    IN
    IF bike = NotFound THEN fail(BikeNotFound)
    ELSE IF isUnavailable(bike) THEN fail(UnavailableBike)
    ELSE IF user = NotFound THEN fail(UserNotFound)
    ELSE /\ closed # {} \/ Len(rents) < MaxRents
         /\ bikeObjs' = [bikeObjs EXCEPT ![bike].available = FALSE]
         /\ rents' = IF closed # {}
                     THEN [rents EXCEPT ![CHOOSE k \in closed : TRUE] =
                              [bike |-> bike, user |-> user, start |-> now, end |-> NoEnd]]
                     ELSE Append(rents, [bike |-> bike, user |-> user, start |-> now, end |-> NoEnd])
         /\ last' = Called("rentBike", bikeId, userEmail, Ok)
         /\ UNCHANGED <<users, bikes, userObjs, repoRents, pending, nextId>>

rentBike(bikeId, userEmail, now) ==
    LET bike == findBike(bikeId)
        user == findUser(userEmail)
        fail(kind) ==
            /\ last' = Called("rentBike", bikeId, userEmail, kind)
            /\ UNCHANGED <<users, bikes, rents, userObjs, bikeObjs, repoRents, pending, nextId>>
    IN
    IF bike = NotFound THEN fail(BikeNotFound)
    ELSE IF isUnavailable(bike) THEN fail(UnavailableBike)
    ELSE IF user = NotFound THEN fail(UserNotFound)
    ELSE /\ Len(rents) < MaxRents
         /\ bikeObjs' = [bikeObjs EXCEPT ![bike].available = FALSE]
         /\ rents' = Append(rents, [bike |-> bike, user |-> user, start |-> now, end |-> NoEnd])
         /\ last' = Called("rentBike", bikeId, userEmail, Ok)
         /\ UNCHANGED <<users, bikes, userObjs, repoRents, pending, nextId>>

\* Mutant: rent.bike.available = true is missing.
returnBike_StaysUnavailable(bikeId, userEmail, now) ==
    LET rent == findRentIndex(bikeId, userEmail) IN
    IF rent = NotFound
    THEN /\ last' = Called("returnBike", bikeId, userEmail, RentNotFound)
         /\ UNCHANGED <<users, bikes, rents, userObjs, bikeObjs, repoRents, pending, nextId>>
    ELSE /\ rents' = [rents EXCEPT ![rent].end = now]
         /\ last' = Answered("returnBike", bikeId, userEmail, NoPassword, Ok, NotFound,
                             times(diffHours(now, rents[rent].start),
                                   bikeObjs[rents[rent].bike].rate))
         /\ UNCHANGED <<users, bikes, userObjs, bikeObjs, repoRents, pending, nextId>>

returnBike(bikeId, userEmail, now) ==
    LET rent == findRentIndex(bikeId, userEmail) IN
    IF rent = NotFound
    THEN /\ last' = Called("returnBike", bikeId, userEmail, RentNotFound)
         /\ UNCHANGED <<users, bikes, rents, userObjs, bikeObjs, repoRents, pending, nextId>>
    ELSE /\ rents' = [rents EXCEPT ![rent].end = now]
         /\ bikeObjs' = [bikeObjs EXCEPT ![rents[rent].bike].available = TRUE]
         /\ last' = Answered("returnBike", bikeId, userEmail, NoPassword, Ok, NotFound,
                             times(diffHours(now, rents[rent].start),
                                   bikeObjs[rents[rent].bike].rate))
         /\ UNCHANGED <<users, bikes, userObjs, repoRents, pending, nextId>>

\* Mutant: latitude and longitude are exchanged.
moveBikeTo_Exchanged(bikeId, location) ==
    LET bike == findBike(bikeId) IN
    IF bike = NotFound
    THEN /\ last' = Called("moveBikeTo", bikeId, "", BikeNotFound)
         /\ UNCHANGED <<users, bikes, rents, userObjs, bikeObjs, repoRents, pending, nextId>>
    ELSE /\ bikeObjs' = [bikeObjs EXCEPT ![bike].location =
                            [latitude |-> location.longitude,
                             longitude |-> location.latitude]]
         /\ last' = Called("moveBikeTo", bikeId, "", Ok)
         /\ UNCHANGED <<users, bikes, rents, userObjs, repoRents, pending, nextId>>

moveBikeTo(bikeId, location) ==
    LET bike == findBike(bikeId) IN
    IF bike = NotFound
    THEN /\ last' = Called("moveBikeTo", bikeId, "", BikeNotFound)
         /\ UNCHANGED <<users, bikes, rents, userObjs, bikeObjs, repoRents, pending, nextId>>
    ELSE /\ bikeObjs' = [bikeObjs EXCEPT ![bike].location =
                            [latitude |-> location.latitude,
                             longitude |-> location.longitude]]
         /\ last' = Called("moveBikeTo", bikeId, "", Ok)
         /\ UNCHANGED <<users, bikes, rents, userObjs, repoRents, pending, nextId>>

(* ------------------------------ Next ---------------------------------- *)
RegisterUser == \E email \in Emails, plain \in Plaintexts : registerUser(email, plain)
RegisterUserAgain == \E user \in 1..Len(userObjs) : registerUserAgain(user)
RegisterUserResume == \E call \in pending : registerUserResume(call)
RegisterBike == \E rate \in Rates, available \in BOOLEAN, location \in Locations : registerBike(rate, available, location)
RegisterBikeAgain == \E bike \in 1..Len(bikeObjs) : registerBikeAgain(bike)
RemoveUser == \E email \in Emails : removeUser(email)
RentBike == \E bikeId \in Ids, email \in Emails, now \in Times : rentBike(bikeId, email, now)
ReturnBike == \E bikeId \in Ids, email \in Emails, now \in Times : returnBike(bikeId, email, now)
MoveBikeTo == \E bikeId \in Ids, location \in Locations : moveBikeTo(bikeId, location)

Next ==
    \/ RegisterUser
    \/ RegisterUserAgain
    \/ RegisterUserResume
    \/ RegisterBike
    \/ RegisterBikeAgain
    \/ RemoveUser
    \/ RentBike
    \/ ReturnBike
    \/ MoveBikeTo

Spec == Init /\ [][Next]_vars

(* ------------------ the fee of a rental: SpecFee ---------------------- *)
\* The inputs of diffHours and of hours * rate: getTime() milliseconds (0, one
\* second, 9000 seconds) and hourly rates. The rate is not validated by
\* registerBike, so a negative one can be stored.
FeeTimes == {0, 1000, 9000000}
FeeRates == {0, 10, -10}

\* The App after registerUser(u) has completed and registerBike(b) was
\* called with b.rate in FeeRates.
InitFee ==
    /\ userObjs = <<[id |-> 1, email |-> "a@x",
                     password |-> encrypt([depth |-> 0, plain |-> "pw"])]>>
    /\ users = <<1>>
    /\ \E rate \in FeeRates :
          bikeObjs = <<[id |-> 2, rate |-> rate, available |-> TRUE,
                        location |-> [latitude |-> 0, longitude |-> 0]]>>
    /\ bikes = <<1>>
    /\ rents = <<>>
    /\ repoRents = <<>>
    /\ pending = {}
    /\ nextId = 3
    /\ last = Called("registerBike", 2, "", Ok)

FeeRentBike == \E bikeId \in Ids, email \in Emails, now \in FeeTimes : rentBike(bikeId, email, now)
FeeReturnBike == \E bikeId \in Ids, email \in Emails, now \in FeeTimes : returnBike(bikeId, email, now)

NextFee ==
    \/ FeeRentBike
    \/ FeeReturnBike

SpecFee == InitFee /\ [][NextFee]_vars

(* ---------------- every operation, with a clock: SpecClock ------------ *)
\* Every operation of the App after InitFee with a bike of rate 10, new
\* Date() ranging over ClockTimes in any order (the clock may be set back).
ClockTimes == {0, 1000}

InitClock == InitFee /\ bikeObjs[1].rate = 10

ClockRentBike == \E bikeId \in Ids, email \in Emails, now \in ClockTimes : rentBike(bikeId, email, now)
ClockReturnBike == \E bikeId \in Ids, email \in Emails, now \in ClockTimes : returnBike(bikeId, email, now)

NextClock ==
    \/ RegisterUser
    \/ RegisterUserAgain
    \/ RegisterUserResume
    \/ RegisterBike
    \/ RegisterBikeAgain
    \/ RemoveUser
    \/ ClockRentBike
    \/ ClockReturnBike
    \/ MoveBikeTo

SpecClock == InitClock /\ [][NextClock]_vars

(* --------------------- users and passwords: SpecUsers ----------------- *)
\* The plaintext passwords of the callers, as the value of user.password
\* the caller sets and as the argument of authenticate.
UserPasswords == {[depth |-> 0, plain |-> "pw"], [depth |-> 0, plain |-> "wrong"]}

UsersRegisterUser == \E email \in Emails, password \in UserPasswords : registerUser(email, password.plain)
UsersAuthenticate == \E email \in Emails, password \in UserPasswords : authenticate(email, password)

NextUsers ==
    \/ UsersRegisterUser
    \/ RegisterUserAgain
    \/ RegisterUserResume
    \/ RemoveUser
    \/ UsersAuthenticate

SpecUsers == Init /\ [][NextUsers]_vars

(* --------------------- user lookups: SpecLookups ---------------------- *)
\* A call of findUser(email), recorded with the user it returned or the
\* error it threw.
FindUser ==
    \E email \in Emails :
        /\ last' = Answered("findUser", NoId, email, NoPassword,
                            IF findUser(email) = NotFound THEN UserNotFound ELSE Ok,
                            findUser(email), NoFee)
        /\ UNCHANGED <<users, bikes, rents, userObjs, bikeObjs, repoRents, pending, nextId>>

\* A call of getUserByEmail(email), recorded with what it returned.
GetUserByEmail ==
    \E email \in Emails :
        /\ last' = Answered("getUserByEmail", NoId, email, NoPassword, Ok,
                            getUserByEmail(email), NoFee)
        /\ UNCHANGED <<users, bikes, rents, userObjs, bikeObjs, repoRents, pending, nextId>>

NextLookups ==
    \/ RegisterUser
    \/ RegisterUserAgain
    \/ RegisterUserResume
    \/ RemoveUser
    \/ FindUser
    \/ GetUserByEmail

SpecLookups == Init /\ [][NextLookups]_vars

(* ------------------------- bikes: SpecBikes --------------------------- *)
BikeRates == {10, 20}

BikesRegisterBike == \E rate \in BikeRates, available \in BOOLEAN, location \in Locations : registerBike(rate, available, location)

\* A call of getBikeById(bikeId), recorded with the bike it returned or the
\* error it threw.
GetBikeById ==
    \E bikeId \in Ids :
        /\ last' = Answered("getBikeById", bikeId, "", NoPassword,
                            IF getBikeById(bikeId) = NotFound THEN BikeNotFound ELSE Ok,
                            getBikeById(bikeId), NoFee)
        /\ UNCHANGED <<users, bikes, rents, userObjs, bikeObjs, repoRents, pending, nextId>>

NextBikes ==
    \/ BikesRegisterBike
    \/ RegisterBikeAgain
    \/ MoveBikeTo
    \/ GetBikeById

SpecBikes == Init /\ [][NextBikes]_vars

(* ------------------------------ claims -------------------------------- *)
\* Vocabulary of the claims, stated on the raw state.
IsOpen(rent) == rent.end = NoEnd
OpenRentsOfBike(bike) == {k \in 1..Len(rents) : IsOpen(rents[k]) /\ rents[k].bike = bike}
HasUserWithEmail(email) == \E i \in 1..Len(users) : userObjs[users[i]].email = email
OpenRentMatching(k, bikeId, email) ==
    /\ bikeObjs[rents[k].bike].id = bikeId
    /\ userObjs[rents[k].user].email = email
    /\ IsOpen(rents[k])

\* C1: every registered bike is unavailable if and only if an open rent of
\* the rent collection references it.
C1_UnavailableIffOpenRent ==
    \A i \in 1..Len(bikes) :
        (~bikeObjs[bikes[i]].available) <=> (OpenRentsOfBike(bikes[i]) # {})

\* C2: each bike is referenced by at most one open rent.
C2_AtMostOneOpenRent ==
    \A bike \in 1..Len(bikeObjs) : Cardinality(OpenRentsOfBike(bike)) <= 1

\* C2 witness: a bike rented, returned and rented again: a closed and an open
\* rent reference it.
C2_Witness ==
    \E j, k \in 1..Len(rents) :
        /\ rents[j].bike = rents[k].bike
        /\ ~IsOpen(rents[j])
        /\ IsOpen(rents[k])

\* C3: when removeUser(email) succeeds, no open rent of the rent collection
\* has a user with that email.
C3_RemovedUserHasNoOpenRent ==
    [][(last'.op = "removeUser" /\ last'.res = Ok) =>
        ~\E k \in 1..Len(rents) :
            IsOpen(rents[k]) /\ userObjs[rents[k].user].email = last'.email]_vars

\* C4: for the email of a registered user, removeUser fails with
\* UserHasOpenRents exactly when the collaborator reports an open rent for the
\* email; then users is unchanged; otherwise exactly that user is removed and
\* no user with that email remains.
C4_RemoveUserOutcome ==
    [][(last'.op = "removeUser" /\ HasUserWithEmail(last'.email)) =>
        /\ (last'.res = UserHasOpenRents) <=> (Len(findOpenRentsFor(last'.email)) > 0)
        /\ (last'.res = UserHasOpenRents) => (users' = users)
        /\ (last'.res # UserHasOpenRents) =>
            /\ \E i \in 1..Len(users) :
                /\ userObjs[users[i]].email = last'.email
                /\ users' = SubSeq(users, 1, i - 1) \o SubSeq(users, i + 1, Len(users))
            /\ \A i \in 1..Len(users') : userObjs'[users'[i]].email # last'.email]_vars

C6_DuplicateUserRejected ==
    [][(last'.op = "registerUser" /\ HasUserWithEmail(last'.email)) =>
        /\ last'.res = DuplicateUser
        /\ users' = users
        /\ \A i \in 1..Len(users) : userObjs'[users[i]] = userObjs[users[i]]]_vars

\* C6 witness: a registerUser was refused as a duplicate.
C6_Witness ==
    /\ last.op = "registerUser"
    /\ last.res = DuplicateUser
    /\ HasUserWithEmail(last.email)

\* C7: no two users of the users collection share an email.
C7_UniqueEmails ==
    \A i, j \in 1..Len(users) :
        i # j => userObjs[users[i]].email # userObjs[users[j]].email

\* C8: rentBike on a registered bike that has an open rent fails with
\* UnavailableBike whatever the email, and changes no bike and no rent.
C8_RentedBikeIsRefused ==
    [][(/\ last'.op = "rentBike"
        /\ \E i \in 1..Len(bikes) :
            /\ bikeObjs[bikes[i]].id = last'.bikeId
            /\ OpenRentsOfBike(bikes[i]) # {}) =>
        /\ last'.res = UnavailableBike
        /\ UNCHANGED <<bikeObjs, rents>>]_vars

\* C8 witness: rentBike on a rented bike was refused for an email that no
\* registered user has.
C8_Witness ==
    /\ last.op = "rentBike"
    /\ last.res = UnavailableBike
    /\ ~HasUserWithEmail(last.email)
    /\ \E i \in 1..Len(bikes) :
        /\ bikeObjs[bikes[i]].id = last.bikeId
        /\ OpenRentsOfBike(bikes[i]) # {}

\* C9: returnBike fails with RentNotFound when no open rent matches the bike
\* id and the email, and then changes no rent and no bike.
C9_NoMatchIsRentNotFound ==
    [][(/\ last'.op = "returnBike"
        /\ ~\E k \in 1..Len(rents) : OpenRentMatching(k, last'.bikeId, last'.email)) =>
        /\ last'.res = RentNotFound
        /\ UNCHANGED <<rents, bikeObjs>>]_vars

\* C9 witness: returnBike was refused for a bike and an email whose rent is
\* already closed.
C9_Witness ==
    /\ last.op = "returnBike"
    /\ last.res = RentNotFound
    /\ \E k \in 1..Len(rents) :
        /\ bikeObjs[rents[k].bike].id = last.bikeId
        /\ userObjs[rents[k].user].email = last.email
        /\ ~IsOpen(rents[k])

\* C10: a successful returnBike sets the end of exactly one rent, the open
\* rent matching the bike id and the email, makes that bike available, and
\* changes no other rent, no other field of any bike and no user.
C10_ReturnClosesExactlyThatRent ==
    [][(last'.op = "returnBike" /\ last'.res = Ok) =>
        \E k \in 1..Len(rents) :
            /\ OpenRentMatching(k, last'.bikeId, last'.email)
            /\ Len(rents') = Len(rents)
            /\ ~IsOpen(rents'[k])
            /\ rents' = [rents EXCEPT ![k].end = rents'[k].end]
            /\ bikeObjs' = [bikeObjs EXCEPT ![rents[k].bike].available = TRUE]
            /\ UNCHANGED <<users, userObjs, bikes>>]_vars

\* C10 witness: a bike was returned while another bike stays rented.
C10_Witness ==
    /\ last.op = "returnBike"
    /\ last.res = Ok
    /\ \E k \in 1..Len(rents) :
        /\ IsOpen(rents[k])
        /\ bikeObjs[rents[k].bike].id # last.bikeId
        /\ ~bikeObjs[rents[k].bike].available

\* C11: the value a successful returnBike returns is |end - start|, in hours
\* and not floored, times the rate of the bike (rate 10 and 9000 seconds:
\* 25); it is not negative when the rate is not, also when end < start.
C11_FeeIsHoursTimesRate ==
    [][(last'.op = "returnBike" /\ last'.res = Ok) =>
        \E k \in 1..Len(rents) :
            /\ OpenRentMatching(k, last'.bikeId, last'.email)
            /\ LET ms == rents'[k].end - rents[k].start
                   elapsed == IF ms < 0 THEN -ms ELSE ms
                   rate == bikeObjs'[rents[k].bike].rate
               IN /\ last'.fee.den > 0
                  /\ last'.fee.num * (3600000 \div GCD(elapsed * rate, 3600000))
                        = last'.fee.den * ((elapsed * rate) \div GCD(elapsed * rate, 3600000))
                  /\ (rate >= 0) => (last'.fee.num >= 0)
                  /\ (rate = 10 /\ elapsed = 9000 * 1000) => (last'.fee = [num |-> 25, den |-> 1])]_vars

\* C11 witness: a rent that ended before it started (the clock was set back)
\* was returned at rate 10 for a fee of 25 (9000 seconds).
C11_Witness ==
    /\ last.op = "returnBike"
    /\ last.res = Ok
    /\ last.fee = [num |-> 25, den |-> 1]
    /\ \E k \in 1..Len(rents) :
        /\ rents[k].end - rents[k].start = -(9000 * 1000)
        /\ bikeObjs[rents[k].bike].rate = 10

\* C12: directly after registerUser(u) has completed, the password stored for
\* u is the hash of the password u came with and not that password, and
\* authenticate(u.email, p) returns true when p is that password and false
\* for every other p; authenticate with the email of no registered user fails
\* with UserNotFound.
C12_AuthenticateAfterRegister ==
    [][(last'.op = "authenticate") =>
        /\ (~HasUserWithEmail(last'.email)) => (last'.res = UserNotFound)
        /\ (last.op = "registerUser.resume" /\ last.email = last'.email) =>
            /\ userObjs[last.ref].password = last.password
            /\ \E original \in [depth : 0..MaxIds, plain : {p.plain : p \in UserPasswords}] :
                  /\ encrypt(original) = last.password
                  /\ original # last.password
                  /\ (last'.password = original) => (last'.res = "true")
                  /\ (last'.password # original) => (last'.res = "false")]_vars

\* getBikeById(id) returns a bike of that id with the given rate,
\* availability and location.
GetsBikeLike(id, rate, available, location) ==
    /\ getBikeById(id) # NotFound
    /\ bikeObjs[getBikeById(id)].id = id
    /\ bikeObjs[getBikeById(id)].rate = rate
    /\ bikeObjs[getBikeById(id)].available = available
    /\ bikeObjs[getBikeById(id)].location = location

\* C13: registerBike(b) never fails and returns an id such that getBikeById(id)
\* then returns a bike with the rate, availability and location b had, b
\* being a new object or one registered before; getBikeById with an
\* identifier never assigned fails with BikeNotFound.
C13_RegisterThenGetBikeById ==
    [][/\ (last'.op = "registerBike") => (last'.res = Ok /\ last'.bikeId = nextId)
       /\ \A id \in Ids, rate \in BikeRates, available \in BOOLEAN, location \in Locations :
             /\ (id = nextId /\ registerBike(rate, available, location)) =>
                    GetsBikeLike(id, rate, available, location)'
             /\ \A bike \in 1..Len(bikeObjs) :
                    (/\ id = nextId
                     /\ rate = bikeObjs[bike].rate
                     /\ available = bikeObjs[bike].available
                     /\ location = bikeObjs[bike].location
                     /\ registerBikeAgain(bike)) =>
                        GetsBikeLike(id, rate, available, location)'
       /\ (last'.op = "getBikeById" /\ last'.bikeId >= nextId) =>
             (last'.res = BikeNotFound /\ last'.ref = NotFound)]_vars

\* C13 witness: a bike object registered a second time, unavailable and at
\* latitude 1, has the id returned while another bike is registered.
C13_Witness ==
    /\ last.op = "registerBike"
    /\ \E i, j \in 1..Len(bikes) :
        /\ i < j
        /\ bikes[i] = bikes[j]
        /\ bikeObjs[bikes[i]].id = last.bikeId
        /\ ~bikeObjs[bikes[i]].available
        /\ bikeObjs[bikes[i]].location.latitude = 1
    /\ \E i \in 1..Len(bikes) : bikeObjs[bikes[i]].id # last.bikeId

\* C14: moveBikeTo(bikeId, location) on a registered bike succeeds and sets
\* that bike's latitude and longitude to the given values: its id, rate and
\* availability, every other bike, the users and the rents are unchanged; on
\* an unknown bike id it fails with BikeNotFound and changes nothing.
C14_MoveChangesOnlyThatLocation ==
    [][\A bikeId \in Ids, location \in Locations :
        moveBikeTo(bikeId, location) =>
            IF \E i \in 1..Len(bikes) : bikeObjs[bikes[i]].id = bikeId
            THEN /\ last'.res = Ok
                 /\ \E i \in 1..Len(bikes) :
                     /\ bikeObjs[bikes[i]].id = bikeId
                     /\ bikeObjs'[bikes[i]].location.latitude = location.latitude
                     /\ bikeObjs'[bikes[i]].location.longitude = location.longitude
                     /\ bikeObjs'[bikes[i]].id = bikeObjs[bikes[i]].id
                     /\ bikeObjs'[bikes[i]].rate = bikeObjs[bikes[i]].rate
                     /\ bikeObjs'[bikes[i]].available = bikeObjs[bikes[i]].available
                     /\ Len(bikeObjs') = Len(bikeObjs)
                     /\ \A other \in 1..Len(bikeObjs) :
                           other # bikes[i] => bikeObjs'[other] = bikeObjs[other]
                 /\ UNCHANGED <<users, userObjs, bikes, rents>>
            ELSE /\ last'.res = BikeNotFound
                 /\ UNCHANGED <<users, userObjs, bikes, bikeObjs, rents>>]_vars

\* C14 witness: a rented bike was moved from (0, 0) to (1, 2) while another
\* registered bike stays at (0, 0).
C14_Witness ==
    /\ last.op = "moveBikeTo"
    /\ last.res = Ok
    /\ Len(users) > 0
    /\ \E i, j \in 1..Len(bikes) :
        /\ bikeObjs[bikes[i]].id = last.bikeId
        /\ bikeObjs[bikes[i]].location = [latitude |-> 1, longitude |-> 2]
        /\ OpenRentsOfBike(bikes[i]) # {}
        /\ bikes[j] # bikes[i]
        /\ bikeObjs[bikes[j]].location = [latitude |-> 0, longitude |-> 0]

\* C15: getUserByEmail(email) never fails: it returns a registered user with
\* that email when one exists and nothing otherwise; findUser(email) returns
\* the user getUserByEmail returns and fails with UserNotFound exactly when
\* getUserByEmail returns nothing; neither changes users, bikes or rents.
C15_LookupsAgree ==
    [][/\ (last'.op = "getUserByEmail") =>
            /\ last'.res = Ok
            /\ HasUserWithEmail(last'.email) =>
                  \E i \in 1..Len(users) :
                      users[i] = last'.ref /\ userObjs[users[i]].email = last'.email
            /\ (~HasUserWithEmail(last'.email)) => (last'.ref = NotFound)
            /\ UNCHANGED <<users, userObjs, bikes, bikeObjs, rents>>
       /\ (last'.op = "findUser") =>
            /\ \A email \in Emails :
                  (email = last'.email) =>
                      /\ (last'.res = UserNotFound) <=> (getUserByEmail(email) = NotFound)
                      /\ (last'.res # UserNotFound) =>
                            (last'.res = Ok /\ last'.ref = getUserByEmail(email))
            /\ UNCHANGED <<users, userObjs, bikes, bikeObjs, rents>>]_vars

\* C15 witness: findUser returned the first of two registered users that
\* share the email.
C15_Witness ==
    /\ last.op = "findUser"
    /\ last.res = Ok
    /\ Len(users) = 2
    /\ users[1] = last.ref
    /\ users[2] # users[1]
    /\ userObjs[users[2]].email = last.email

\* C16: a successful rentBike(bikeId, email) appends exactly one rent, open
\* and referencing the bike of that id and a registered user of that email,
\* makes that bike unavailable, and changes no existing rent, no other bike
\* and no other field; a rentBike that fails with BikeNotFound or UserNotFound
\* changes no bike and no rent.
C16_RentAppendsOneOpenRent ==
    [][(last'.op = "rentBike") =>
        /\ (last'.res = Ok) =>
            \E i \in 1..Len(bikes), u \in 1..Len(users) :
                /\ bikeObjs[bikes[i]].id = last'.bikeId
                /\ userObjs[users[u]].email = last'.email
                /\ Len(rents') = Len(rents) + 1
                /\ SubSeq(rents', 1, Len(rents)) = rents
                /\ rents'[Len(rents')].bike = bikes[i]
                /\ rents'[Len(rents')].user = users[u]
                /\ IsOpen(rents'[Len(rents')])
                /\ bikeObjs' = [bikeObjs EXCEPT ![bikes[i]].available = FALSE]
                /\ UNCHANGED <<users, userObjs, bikes>>
        /\ (last'.res \in {BikeNotFound, UserNotFound}) =>
            UNCHANGED <<rents, bikeObjs>>]_vars

\* C16 witness: a bike was rented while a closed rent is in the collection
\* and another registered bike is available.
C16_Witness ==
    /\ last.op = "rentBike"
    /\ last.res = Ok
    /\ Len(rents) = 2
    /\ ~IsOpen(rents[1])
    /\ IsOpen(rents[2])
    /\ bikeObjs[rents[2].bike].id = last.bikeId
    /\ \E i \in 1..Len(bikes) :
        bikes[i] # rents[2].bike /\ bikeObjs[bikes[i]].available

\* C17: in every step the rent collection keeps its rents in their places
\* (it never shrinks and never reorders), every rent keeps its bike, user and
\* start, and a rent that has an end keeps that end.
C17_RentLifecycleOneWay ==
    [][/\ Len(rents') >= Len(rents)
       /\ \A k \in 1..Len(rents) :
            /\ rents'[k].bike = rents[k].bike
            /\ rents'[k].user = rents[k].user
            /\ rents'[k].start = rents[k].start
            /\ (~IsOpen(rents[k])) => (rents'[k].end = rents[k].end)]_vars

\* C17 witness: a rent closed at one time stays closed at that time while a
\* later rent of the same bike and user email was opened and closed at other
\* times.
C17_Witness ==
    /\ Len(rents) = 2
    /\ rents[1].bike = rents[2].bike
    /\ userObjs[rents[1].user].email = userObjs[rents[2].user].email
    /\ ~IsOpen(rents[1])
    /\ ~IsOpen(rents[2])
    /\ rents[1].end # rents[2].end
    /\ rents[1].start # rents[2].start
    /\ last.op = "returnBike"
    /\ last.res = Ok

\* C18: returnBike with the bike id and the user email of an open rent of the
\* collection succeeds, whether or not that user is still registered; and a
\* rentBike that directly follows a successful returnBike, on the same bike
\* id and with the email of a registered user, succeeds.
C18_ReturnThenRentAgain ==
    [][/\ (/\ last'.op = "returnBike"
           /\ \E k \in 1..Len(rents) : OpenRentMatching(k, last'.bikeId, last'.email)) =>
             (last'.res = Ok)
       /\ (/\ last.op = "returnBike"
           /\ last.res = Ok
           /\ last'.op = "rentBike"
           /\ last'.bikeId = last.bikeId
           /\ HasUserWithEmail(last'.email)) =>
             (last'.res = Ok)]_vars

\* C18 witness: a bike rented by a user who was then removed was returned
\* with that user's email and at once rented by another, registered user.
C18_Witness ==
    /\ last.op = "rentBike"
    /\ last.res = Ok
    /\ Len(rents) = 2
    /\ ~IsOpen(rents[1])
    /\ IsOpen(rents[2])
    /\ rents[1].bike = rents[2].bike
    /\ ~HasUserWithEmail(userObjs[rents[1].user].email)
    /\ userObjs[rents[2].user].email # userObjs[rents[1].user].email

====
